---- MODULE Spec2Model ----
(***************************************************************************)
(* MQDescriptor<T, flavor> of base/include/hidl/MQDescriptor.h: the        *)
(* descriptor of a fast message queue (grantor table, owned native handle, *)
(* quantum and flavor), its four constructors, its destructor and its      *)
(* accessors, together with the process fd table and the heap of native    *)
(* handles the copy constructor and the destructor act on.                 *)
(*                                                                         *)
(* Unsigned integers whose width matters (uint32_t offset, size_t extent,  *)
(* uint32_t mQuantum, the size_t arguments) are little-endian sequences of *)
(* 16-bit limbs: a uint32_t has U32Limbs limbs, a size_t SizeTLimbs limbs  *)
(* (LP64).  Arithmetic wraps at the width of the sequence, as in C++.      *)
(***************************************************************************)
EXTENDS Integers, Sequences, FiniteSets, TLC

VARIABLES descs, handles, open, snaps, aborted

vars == <<descs, handles, open, snaps, aborted>>

(***************************************************************************)
(* Bounds of the model.                                                    *)
(***************************************************************************)
MaxDescs == 2          \* descriptor objects alive at once (Spec, SpecShare)
MaxLayoutDescs == 1    \* descriptor objects alive at once (SpecLayout, SpecAccess)
MaxHandles == 2        \* native_handle_t allocations (heap addresses)
FdLimit == 4           \* size of the process fd table (RLIMIT_NOFILE)
MaxSnaps == 1          \* getGrantors() results the caller keeps
OtherFds == 1          \* fds the rest of the process holds open
MaxHandleFds == 2      \* numFds of a handle the caller creates
MaxHandleInts == 1     \* numInts of a handle the caller creates

(***************************************************************************)
(* Fixed-width unsigned integers.                                          *)
(***************************************************************************)
LimbBase == 65536
U32Limbs == 2
SizeTLimbs == 4

\* the n-limb value of a natural below 2^31
FromNat(n, k) ==
    [i \in 1..k |-> IF i = 1 THEN n % LimbBase
                    ELSE IF i = 2 THEN n \div LimbBase
                    ELSE 0]

SizeT(n) == FromNat(n, SizeTLimbs)
UInt32(n) == FromNat(n, U32Limbs)

\* 2^32 - n and 2^32 + n as size_t, 0 < n < 2^16 ; 2^64 - 1
SizeTBelow2p32(n) == <<LimbBase - n, LimbBase - 1, 0, 0>>
SizeTAbove2p32(n) == <<n, 0, 1, 0>>
SizeTMax == <<LimbBase - 1, LimbBase - 1, LimbBase - 1, LimbBase - 1>>

RECURSIVE CarryInto(_, _, _)
CarryInto(a, b, i) ==
    IF i = 1 THEN 0
    ELSE (a[i - 1] + b[i - 1] + CarryInto(a, b, i - 1)) \div LimbBase

\* a + b in the width of a (unsigned wrap-around)
AddWrap(a, b) ==
    [i \in 1..Len(a) |-> (a[i] + b[i] + CarryInto(a, b, i)) % LimbBase]

\* conversion to a narrower unsigned type keeps the low limbs
Truncate(a, k) == [i \in 1..k |-> a[i]]

\* conversion to a wider unsigned type pads with zero limbs
ZeroExtend(a, k) == [i \in 1..k |-> IF i <= Len(a) THEN a[i] ELSE 0]

static_cast_uint32(x) == Truncate(x, U32Limbs)
to_size_t(x) == ZeroExtend(x, SizeTLimbs)

(***************************************************************************)
(* Program constants.                                                      *)
(***************************************************************************)
kSynchronizedReadWrite == 1
kUnsynchronizedWrite == 2
MQFlavor == {kSynchronizedReadWrite, kUnsynchronizedWrite}

READPTRPOS == 0
WRITEPTRPOS == 1
DATAPTRPOS == 2
EVFLAGWORDPOS == 3
kMinGrantorCount == DATAPTRPOS + 1
kMinGrantorCountForEvFlagSupport == EVFLAGWORDPOS + 1

SizeofRingBufferPosition == 8
SizeofAtomicUint32 == 4

nullptr == 0

(***************************************************************************)
(* GrantorDescriptor and the grantor table of the generated layout.        *)
(* C++ positions are 0-based, sequence indices 1-based: position p is      *)
(* index p + 1.                                                            *)
(***************************************************************************)
GrantorDescriptor(flags, fdIndex, offset, extent) ==
    [flags |-> flags, fdIndex |-> fdIndex, offset |-> offset, extent |-> extent]

\* a size table whose EventFlag word is as wide as a position counter
memSizeWideEventFlag(bufferSize) ==
    << SizeT(SizeofRingBufferPosition),
       SizeT(SizeofRingBufferPosition),
       bufferSize,
       SizeT(SizeofRingBufferPosition) >>

memSize(bufferSize) ==
    << SizeT(SizeofRingBufferPosition),
       SizeT(SizeofRingBufferPosition),
       bufferSize,
       SizeT(SizeofAtomicUint32) >>

\* offset += memSize[++grantorPos]: the size of the next grantor is added
RECURSIVE LoopOffsetPreIncrement(_, _)
LoopOffsetPreIncrement(ms, grantorPos) ==
    IF grantorPos = 0 THEN SizeT(0)
    ELSE AddWrap(LoopOffsetPreIncrement(ms, grantorPos - 1), ms[grantorPos + 1])

\* the loop variable `offset` (a size_t) when the loop body runs for grantorPos
RECURSIVE LoopOffset(_, _)
LoopOffset(ms, grantorPos) ==
    IF grantorPos = 0 THEN SizeT(0)
    ELSE AddWrap(LoopOffset(ms, grantorPos - 1), ms[grantorPos])

\* a table that never gets the EventFlag grantor
GeneratedGrantorsIgnoresFlag(bufferSize, configureEventFlag) ==
    [i \in 1..kMinGrantorCount |->
        GrantorDescriptor(0, 0,
                          static_cast_uint32(LoopOffset(memSize(bufferSize), i - 1)),
                          memSize(bufferSize)[i])]

GeneratedGrantors(bufferSize, configureEventFlag) ==
    [i \in 1..(IF configureEventFlag THEN kMinGrantorCountForEvFlagSupport
                                     ELSE kMinGrantorCount) |->
        GrantorDescriptor(0, 0,
                          static_cast_uint32(LoopOffset(memSize(bufferSize), i - 1)),
                          memSize(bufferSize)[i])]

\* mGrantors.resize(n); for i: mGrantors[i] = grantors[i] (both copy loops)
CopyGrantors(grantors) == [i \in 1..Len(grantors) |-> grantors[i]]

\* hidl_vec's copy constructor: a new buffer with the same elements
VecCopy(v) == [i \in 1..Len(v) |-> v[i]]

(***************************************************************************)
(* Descriptor objects.  The fields m... are the members of the class;      *)
(* flavor is the template argument of the object's type.  The remaining    *)
(* fields record how the object came to be: origin and ev name the         *)
(* constructor that laid the grantors out, bufferSize and messageSize the  *)
(* size_t arguments it was given (a copy inherits all four), and copyOf    *)
(* the slot of the descriptor a copy was constructed from (0 otherwise).   *)
(***************************************************************************)
NoDesc ==
    [live |-> FALSE, flavor |-> 0, origin |-> "none", ev |-> FALSE,
     bufferSize |-> SizeT(0), messageSize |-> SizeT(0), copyOf |-> 0,
     mGrantors |-> <<>>, mHandle |-> nullptr, mQuantum |-> UInt32(0), mFlags |-> 0]

MakeDesc(flavor, grantors, handle, quantum, flags) ==
    [NoDesc EXCEPT !.live = TRUE, !.flavor = flavor, !.mGrantors = grantors,
                   !.mHandle = handle, !.mQuantum = quantum, !.mFlags = flags]

DescIds == DOMAIN descs
Live == {d \in DescIds : descs[d].live}

(***************************************************************************)
(* Accessors.                                                              *)
(***************************************************************************)
countGrantors(d) == Len(descs[d].mGrantors)
getSize(d) == descs[d].mGrantors[DATAPTRPOS + 1].extent
getQuantum(d) == to_size_t(descs[d].mQuantum)
getFlags(d) == descs[d].mFlags
handle(d) == descs[d].mHandle

\* A std::vector<GrantorDescriptor> object: its own buffer of elements (view = 0),
\* or a view of the grantor buffer of descriptor `view`.
StdVector(elems) == [view |-> 0, elems |-> elems]
ElemsIn(v, ds) == IF v.view = 0 THEN v.elems ELSE ds[v.view].mGrantors
VecElems(v) == ElemsIn(v, descs)

\* a getGrantors() that hands out the descriptor's own buffer
getGrantorsView(d) == [view |-> d, elems |-> <<>>]

getGrantors(d) == StdVector(CopyGrantors(descs[d].mGrantors))

(***************************************************************************)
(* Constructors.                                                           *)
(***************************************************************************)
\* MQDescriptor(const std::vector<GrantorDescriptor>&, native_handle_t*, size_t):
\* the object it initializes
ExplicitInit(flavor, grantors, nhandle, size) ==
    [MakeDesc(flavor, CopyGrantors(grantors), nhandle, static_cast_uint32(size), flavor)
        EXCEPT !.origin = "explicit", !.messageSize = size]

ConstructExplicit(d, flavor, grantors, nhandle, size) ==
    /\ ~aborted
    /\ ~descs[d].live
    /\ descs' = [descs EXCEPT ![d] = ExplicitInit(flavor, grantors, nhandle, size)]
    /\ UNCHANGED <<handles, open, snaps, aborted>>

\* the caller passes (getGrantors(), handle(), getQuantum()) of descriptor other
RoundTrip(d, other) ==
    /\ ~aborted
    /\ descs[other].live
    /\ ~descs[d].live
    /\ descs' = [descs EXCEPT ![d] =
                    [ExplicitInit(descs[other].flavor, VecElems(getGrantors(other)),
                                  handle(other), getQuantum(other))
                        EXCEPT !.origin = "roundtrip", !.copyOf = other]]
    /\ UNCHANGED <<handles, open, snaps, aborted>>

\* MQDescriptor(): delegates to the explicit constructor
ConstructDefault(d, flavor) ==
    /\ ~aborted
    /\ ~descs[d].live
    /\ descs' = [descs EXCEPT ![d] =
                    [ExplicitInit(flavor, <<>>, nullptr, SizeT(0))
                        EXCEPT !.origin = "default"]]
    /\ UNCHANGED <<handles, open, snaps, aborted>>

\* MQDescriptor(size_t bufferSize, native_handle_t*, size_t messageSize, bool):
\* the object it initializes
GeneratedInit(flavor, bufferSize, nHandle, messageSize, configureEventFlag) ==
    [MakeDesc(flavor, GeneratedGrantors(bufferSize, configureEventFlag),
              nHandle, static_cast_uint32(messageSize), flavor)
        EXCEPT !.origin = "generated", !.ev = configureEventFlag,
               !.bufferSize = bufferSize, !.messageSize = messageSize]

ConstructGenerated(d, flavor, bufferSize, nHandle, messageSize, configureEventFlag) ==
    /\ ~aborted
    /\ ~descs[d].live
    /\ descs' = [descs EXCEPT ![d] =
                    GeneratedInit(flavor, bufferSize, nHandle, messageSize,
                                  configureEventFlag)]
    /\ UNCHANGED <<handles, open, snaps, aborted>>

(***************************************************************************)
(* The process fd table and the heap of native_handle_t objects.  A handle *)
(* at address p is handles[p]: data[1..numFds] are its fds and             *)
(* data[numFds+1..numFds+numInts] its ints.                                *)
(***************************************************************************)
Fds == 0..(FdLimit - 1)
Addrs == 1..MaxHandles
FreeAddrs == {p \in Addrs : ~handles[p].alloc}

NoHandle == [alloc |-> FALSE, numFds |-> 0, numInts |-> 0, data |-> <<>>]

HandleFds(h) == {h.data[i] : i \in 1..h.numFds}

SetMin(S) == CHOOSE x \in S : \A y \in S : x <= y

\* the allocator hands out the lowest free address
Malloc(p) == FreeAddrs # {} /\ p = SetMin(FreeAddrs)

\* a dup that hands back the number it was given
dupKeepsNumber(openFds, fd) == fd

\* dup(2): the lowest-numbered unused descriptor, or -1 (EBADF, EMFILE)
dup(openFds, fd) ==
    IF fd \notin openFds THEN -1
    ELSE IF Fds \ openFds = {} THEN -1
    ELSE SetMin(Fds \ openFds)

\* the loop `mHandle->data[i] = dup(other.mHandle->data[i])` after n rounds:
\* the fd table and the fds stored so far
RECURSIVE DupLoop(_, _, _)
DupLoop(srcData, n, openFds) ==
    IF n = 0 THEN [open |-> openFds, fds |-> <<>>]
    ELSE LET prev == DupLoop(srcData, n - 1, openFds)
             r == dup(prev.open, srcData[n])
         IN  [open |-> IF r = -1 THEN prev.open ELSE prev.open \cup {r},
              fds |-> Append(prev.fds, r)]

\* memcpy(&mHandle->data[numFds], &other.mHandle->data[numFds], numInts * sizeof(int))
MemcpyInts(src) == [i \in 1..src.numInts |-> src.data[src.numFds + i]]

\* native_handle_close: close(2) on every fd of the handle
NativeHandleClose(openFds, h) == openFds \ HandleFds(h)

\* native_handle_delete: the address is free again
NativeHandleDelete(hs, p) == [hs EXCEPT ![p] = NoHandle]

(***************************************************************************)
(* The caller creates a handle (native_handle_create and freshly opened    *)
(* fds) and constructs a descriptor on it.                                 *)
(***************************************************************************)
IntPayload == {7}
IntSeqs == UNION {[1..n -> IntPayload] : n \in 0..MaxHandleInts}

RECURSIVE OpenLoop(_, _)
OpenLoop(n, openFds) ==
    IF n = 0 THEN [open |-> openFds, fds |-> <<>>]
    ELSE LET prev == OpenLoop(n - 1, openFds)
             r == SetMin(Fds \ prev.open)
         IN  [open |-> prev.open \cup {r}, fds |-> Append(prev.fds, r)]

\* native_handle_create(numFds, numInts), numFds freshly opened fds and the ints
\* stored in it, then MQDescriptor(bufferSize, handle, messageSize, ev) on it
CallerBuildsQueue(d, flavor, bufferSize, p, numFds, ints, messageSize, ev) ==
    /\ ~aborted
    /\ ~descs[d].live
    /\ Malloc(p)
    /\ Cardinality(Fds \ open) >= numFds
    /\ LET made == OpenLoop(numFds, open)
       IN  /\ handles' = [handles EXCEPT ![p] =
                             [alloc |-> TRUE, numFds |-> numFds,
                              numInts |-> Len(ints), data |-> made.fds \o ints]]
           /\ open' = made.open
    /\ descs' = [descs EXCEPT ![d] =
                    GeneratedInit(flavor, bufferSize, p, messageSize, ev)]
    /\ UNCHANGED <<snaps, aborted>>

\* what a read through a dangling native_handle_t* may find
GarbageHandles ==
    {[alloc |-> FALSE, numFds |-> Len(f), numInts |-> Len(i), data |-> f \o i] :
        f \in UNION {[1..n -> Fds \cup {-1}] : n \in 0..MaxHandleFds}, i \in IntSeqs}

(***************************************************************************)
(* Copy constructor and destructor.                                        *)
(***************************************************************************)
\* the compiler-generated memberwise copy: mHandle(other.mHandle)
ImplicitMemberwiseCopy(d, other, p) ==
    /\ ~aborted
    /\ ~descs[d].live
    /\ descs[other].live
    /\ descs' = [descs EXCEPT ![d] = [descs[other] EXCEPT !.copyOf = other]]
    /\ UNCHANGED <<handles, open, snaps, aborted>>

\* member initializers that leave mQuantum out
CopyInitDropsQuantum(o) ==
    [o EXCEPT !.mGrantors = VecCopy(o.mGrantors), !.mHandle = nullptr,
              !.mQuantum = UInt32(0), !.mFlags = o.mFlags]

\* the member initializers: mGrantors(other.mGrantors), mHandle(nullptr),
\* mQuantum(other.mQuantum), mFlags(other.mFlags)
CopyInit(o) ==
    [o EXCEPT !.mGrantors = VecCopy(o.mGrantors), !.mHandle = nullptr,
              !.mQuantum = o.mQuantum, !.mFlags = o.mFlags]

\* the body of the copy constructor on the handle src found at other.mHandle
CopyHandle(d, other, p, src) ==
    LET dups == DupLoop(src.data, src.numFds, open)
    IN  /\ Malloc(p)
        /\ handles' = [handles EXCEPT ![p] =
                          [alloc |-> TRUE, numFds |-> src.numFds,
                           numInts |-> src.numInts,
                           data |-> dups.fds \o MemcpyInts(src)]]
        /\ open' = dups.open
        /\ descs' = [descs EXCEPT ![d] =
                        [CopyInit(descs[other]) EXCEPT !.mHandle = p, !.copyOf = other]]
        /\ UNCHANGED aborted

\* MQDescriptor(const MQDescriptor& other), self at slot d, the new handle at p
ConstructCopy(d, other, p) ==
    /\ ~aborted
    /\ ~descs[d].live
    /\ descs[other].live
    /\ IF descs[other].mHandle = nullptr
       THEN /\ descs' = [descs EXCEPT ![d] =
                            [CopyInit(descs[other]) EXCEPT !.copyOf = other]]
            /\ UNCHANGED <<handles, open, aborted>>
       ELSE IF handles[descs[other].mHandle].alloc
       THEN CopyHandle(d, other, p, handles[descs[other].mHandle])
       \* other.mHandle dangles: reading through it is undefined behaviour
       ELSE \/ \E src \in GarbageHandles : CopyHandle(d, other, p, src)
            \/ /\ aborted' = TRUE
               /\ UNCHANGED <<descs, handles, open>>
    /\ UNCHANGED snaps

\* the object at slot d is gone; no descriptor is a copy of it any more
Destroyed(d) ==
    [e \in DescIds |->
        IF e = d THEN NoDesc
        ELSE IF descs[e].copyOf = d THEN [descs[e] EXCEPT !.copyOf = 0]
        ELSE descs[e]]

\* ~MQDescriptor()
Destroy(d) ==
    /\ ~aborted
    /\ descs[d].live
    /\ LET p == descs[d].mHandle
       IN  IF p = nullptr
           THEN /\ descs' = Destroyed(d)
                /\ UNCHANGED <<handles, open, aborted>>
           ELSE IF handles[p].alloc
           THEN /\ open' = NativeHandleClose(open, handles[p])
                /\ handles' = NativeHandleDelete(handles, p)
                /\ descs' = Destroyed(d)
                /\ UNCHANGED aborted
           \* mHandle dangles: closing and freeing it again is undefined behaviour
           ELSE \/ /\ \E src \in GarbageHandles : open' = NativeHandleClose(open, src)
                   /\ descs' = Destroyed(d)
                   /\ UNCHANGED <<handles, aborted>>
                \/ /\ aborted' = TRUE
                   /\ UNCHANGED <<descs, handles, open>>
    /\ UNCHANGED snaps

(***************************************************************************)
(* The caller keeps getGrantors() results and patches grantors through the *)
(* mutable-reference accessor grantors().                                  *)
(***************************************************************************)
FdIndexValues == {0, 1}

\* std::vector<GrantorDescriptor> v = d.getGrantors();
TakeSnapshot(d) ==
    /\ ~aborted
    /\ descs[d].live
    /\ Len(snaps) < MaxSnaps
    /\ snaps' = Append(snaps, [of |-> d, vec |-> getGrantors(d)])
    /\ UNCHANGED <<descs, handles, open, aborted>>

\* the most recent result goes out of scope
DropSnapshot ==
    /\ ~aborted
    /\ snaps # <<>>
    /\ snaps' = SubSeq(snaps, 1, Len(snaps) - 1)
    /\ UNCHANGED <<descs, handles, open, aborted>>

\* d.grantors()[pos].fdIndex = v;
SetGrantor(d, pos, v) ==
    /\ ~aborted
    /\ descs[d].live
    /\ pos + 1 \in 1..Len(descs[d].mGrantors)
    /\ descs[d].mGrantors[pos + 1].fdIndex # v
    /\ descs' = [descs EXCEPT ![d].mGrantors[pos + 1].fdIndex = v]
    /\ UNCHANGED <<handles, open, snaps, aborted>>

(***************************************************************************)
(* Inputs.                                                                 *)
(***************************************************************************)
BufferSizes == {SizeT(16)}
MessageSizes == {SizeT(4)}

\* a well-formed explicit table on two fds, and a too-short one
WellFormedList ==
    << GrantorDescriptor(0, 0, UInt32(0), SizeT(8)),
       GrantorDescriptor(0, 0, UInt32(64), SizeT(8)),
       GrantorDescriptor(0, 1, UInt32(0), SizeT(32)) >>
ShortList == << GrantorDescriptor(0, 0, UInt32(0), SizeT(8)) >>
ExplicitLists == {WellFormedList, ShortList}

LayoutBufferSizes ==
    { SizeT(0), SizeT(1), SizeT(4096), SizeTBelow2p32(17), SizeTBelow2p32(16),
      SizeTBelow2p32(1), SizeTAbove2p32(0), SizeTMax }
LayoutMessageSizes ==
    { SizeT(0), SizeT(1), SizeT(8), SizeTBelow2p32(1), SizeTAbove2p32(0),
      SizeTAbove2p32(4), SizeTMax }

(***************************************************************************)
(* Spec: descriptors built on handles the caller hands over, copied,       *)
(* patched and destroyed.                                                  *)
(***************************************************************************)
InitWith(n, k) ==
    /\ descs = [d \in 1..n |-> NoDesc]
    /\ handles = [p \in Addrs |-> NoHandle]
    /\ open = 0..(k - 1)
    /\ snaps = <<>>
    /\ aborted = FALSE

Init == \E k \in 0..OtherFds : InitWith(MaxDescs, k)

Next ==
    \/ \E d \in DescIds, flavor \in MQFlavor, b \in BufferSizes, p \in Addrs,
          n \in 0..MaxHandleFds, ints \in IntSeqs, m \in MessageSizes, ev \in BOOLEAN :
          CallerBuildsQueue(d, flavor, b, p, n, ints, m, ev)
    \/ \E d \in DescIds, flavor \in MQFlavor, b \in BufferSizes, m \in MessageSizes,
          ev \in BOOLEAN :
          ConstructGenerated(d, flavor, b, nullptr, m, ev)
    \/ \E d \in DescIds, other \in DescIds, p \in Addrs : ConstructCopy(d, other, p)
    \/ \E d \in DescIds : Destroy(d)
    \/ \E d \in DescIds, v \in FdIndexValues : SetGrantor(d, DATAPTRPOS, v)

Spec == Init /\ [][Next]_vars

(***************************************************************************)
(* SpecShare: the caller may also build a descriptor from the accessors of *)
(* a live one.                                                             *)
(***************************************************************************)
NextShare ==
    \/ \E d \in DescIds, flavor \in MQFlavor, b \in BufferSizes, p \in Addrs,
          n \in 0..MaxHandleFds, ints \in IntSeqs, m \in MessageSizes :
          CallerBuildsQueue(d, flavor, b, p, n, ints, m, TRUE)
    \/ \E d \in DescIds, other \in DescIds : RoundTrip(d, other)
    \/ \E d \in DescIds, other \in DescIds, p \in Addrs : ConstructCopy(d, other, p)
    \/ \E d \in DescIds : Destroy(d)

SpecShare == Init /\ [][NextShare]_vars

(***************************************************************************)
(* SpecLayout: the constructors on the whole range of size_t arguments.    *)
(***************************************************************************)
InitLayout == InitWith(MaxLayoutDescs, 0)

NextLayout ==
    \/ \E d \in DescIds, flavor \in MQFlavor : ConstructDefault(d, flavor)
    \/ \E d \in DescIds, flavor \in MQFlavor, g \in ExplicitLists,
          size \in LayoutMessageSizes :
          ConstructExplicit(d, flavor, g, nullptr, size)
    \/ \E d \in DescIds, flavor \in MQFlavor, b \in LayoutBufferSizes,
          m \in LayoutMessageSizes, ev \in BOOLEAN :
          ConstructGenerated(d, flavor, b, nullptr, m, ev)
    \/ \E d \in DescIds : Destroy(d)

SpecLayout == InitLayout /\ [][NextLayout]_vars

(***************************************************************************)
(* SpecAccess: getGrantors() results kept by the caller while grantors()   *)
(* is written through.                                                     *)
(***************************************************************************)
NextAccess ==
    \/ \E d \in DescIds, flavor \in MQFlavor, g \in ExplicitLists, size \in MessageSizes :
          ConstructExplicit(d, flavor, g, nullptr, size)
    \/ \E d \in DescIds, flavor \in MQFlavor, b \in BufferSizes,
          m \in MessageSizes, ev \in BOOLEAN :
          ConstructGenerated(d, flavor, b, nullptr, m, ev)
    \/ \E d \in DescIds : Destroy(d)
    \/ \E d \in DescIds : TakeSnapshot(d)
    \/ DropSnapshot
    \/ \E d \in DescIds, pos \in {READPTRPOS, DATAPTRPOS}, v \in FdIndexValues :
          SetGrantor(d, pos, v)

SpecAccess == InitLayout /\ [][NextAccess]_vars


(***************************************************************************)
(* Numbers as such: the value of a limb sequence, whatever its width.      *)
(***************************************************************************)
Wider(a, b) == IF Len(a) >= Len(b) THEN Len(a) ELSE Len(b)

\* a and b denote the same natural number
SameNumber(a, b) == ZeroExtend(a, Wider(a, b)) = ZeroExtend(b, Wider(a, b))

\* a + b without wrap-around (one limb wider than the wider operand)
ExactSum(a, b) ==
    AddWrap(ZeroExtend(a, Wider(a, b) + 1), ZeroExtend(b, Wider(a, b) + 1))

\* a mod 2^32
Low32(a) == Truncate(ZeroExtend(a, Wider(a, UInt32(0))), U32Limbs)

IsZero(a) == \A i \in 1..Len(a) : a[i] = 0
Below2p32(a) == \A i \in (U32Limbs + 1)..Len(a) : a[i] = 0

Generated == {d \in Live : descs[d].origin = "generated" /\ descs[d].copyOf = 0}
GeneratedPositive ==
    {d \in Generated : ~IsZero(descs[d].bufferSize) /\ ~IsZero(descs[d].messageSize)}

\* flags = 0 and fdIndex = 0 in every grantor, extents 8, 8, bufferSize (, 4),
\* offsets 0, 8, 16
CanonicalPrefix(d) ==
    LET g == descs[d].mGrantors
    IN  /\ Len(g) = IF descs[d].ev THEN 4 ELSE 3
        /\ \A i \in 1..Len(g) : g[i].flags = 0 /\ g[i].fdIndex = 0
        /\ SameNumber(g[1].extent, SizeT(8)) /\ SameNumber(g[2].extent, SizeT(8))
        /\ SameNumber(g[3].extent, descs[d].bufferSize)
        /\ SameNumber(g[1].offset, SizeT(0)) /\ SameNumber(g[2].offset, SizeT(8))
        /\ SameNumber(g[3].offset, SizeT(16))
        /\ descs[d].ev => SameNumber(g[4].extent, SizeT(4))

(***************************************************************************)
(* C4.  As claimed: for any bufferSize > 0 and messageSize > 0 the         *)
(* generated table is extents [8, 8, bufferSize] at offsets [0, 8, 16],    *)
(* with event-flag a fourth grantor of extent 4 at offset 16 + bufferSize, *)
(* all with flags = 0 and fdIndex = 0.                                     *)
(***************************************************************************)
C4_FourthOffsetIsExactSum ==
    \A d \in GeneratedPositive :
        /\ CanonicalPrefix(d)
        /\ descs[d].ev =>
              SameNumber(descs[d].mGrantors[4].offset,
                         ExactSum(SizeT(16), descs[d].bufferSize))

\* C4 as amended: the same table, the fourth offset being 16 + bufferSize
\* reduced modulo 2^32 (the width of the offset field).
C4_FourthOffsetIsSumMod2p32 ==
    \A d \in GeneratedPositive :
        /\ CanonicalPrefix(d)
        /\ descs[d].ev =>
              descs[d].mGrantors[4].offset =
                  Low32(ExactSum(SizeT(16), descs[d].bufferSize))

\* a table with event-flag whose fourth offset wrapped to 0
C4_Witness ==
    \E d \in GeneratedPositive :
        /\ descs[d].ev
        /\ descs[d].bufferSize = SizeTBelow2p32(16)
        /\ IsZero(descs[d].mGrantors[4].offset)

(***************************************************************************)
(* C5.  As claimed: for bufferSize > 0 and messageSize > 0 getSize()       *)
(* returns bufferSize and getQuantum() returns messageSize, exactly.       *)
(***************************************************************************)
C5_SizeAndQuantumExact ==
    \A d \in GeneratedPositive :
        /\ SameNumber(getSize(d), descs[d].bufferSize)
        /\ SameNumber(getQuantum(d), descs[d].messageSize)

(***************************************************************************)
(* C6.  As claimed: for every bufferSize the stored offsets are            *)
(* contiguous, offset[i+1] = offset[i] + extent[i] for consecutive         *)
(* grantors.                                                               *)
(***************************************************************************)
C6_OffsetsContiguous ==
    \A d \in Generated :
        \A i \in 1..(countGrantors(d) - 1) :
            SameNumber(descs[d].mGrantors[i + 1].offset,
                       ExactSum(descs[d].mGrantors[i].offset,
                                descs[d].mGrantors[i].extent))

\* C6 as amended: offset[i+1] = (offset[i] + extent[i]) mod 2^32 for every
\* bufferSize, and offset[i+1] = offset[i] + extent[i] exactly whenever
\* 16 + bufferSize < 2^32.
C6_OffsetsContiguousMod2p32 ==
    \A d \in Generated :
        \A i \in 1..(countGrantors(d) - 1) :
            LET next == descs[d].mGrantors[i + 1].offset
                sum == ExactSum(descs[d].mGrantors[i].offset,
                                descs[d].mGrantors[i].extent)
            IN  /\ next = Low32(sum)
                /\ Below2p32(ExactSum(SizeT(16), descs[d].bufferSize))
                      => SameNumber(next, sum)

\* four grantors on a buffer that ends past 2^32: the fourth offset is not the sum
C6_Witness ==
    \E d \in Generated :
        /\ countGrantors(d) = 4
        /\ descs[d].bufferSize = SizeTBelow2p32(1)
        /\ ~SameNumber(descs[d].mGrantors[4].offset,
                       ExactSum(descs[d].mGrantors[3].offset,
                                descs[d].mGrantors[3].extent))

(***************************************************************************)
(* C9.  As claimed: every descriptor, however constructed, has 3 or 4      *)
(* grantors, 4 exactly when event-flag support was requested, so that      *)
(* getSize() always reads an existing grantor.                             *)
(***************************************************************************)
C9_EveryDescriptorHas3Or4 ==
    \A d \in Live :
        /\ countGrantors(d) \in {3, 4}
        /\ countGrantors(d) = 4 <=> descs[d].ev
        /\ DATAPTRPOS + 1 <= countGrantors(d)

\* C9 as amended: a descriptor built by the generated-layout constructor has
\* 3 or 4 grantors, 4 exactly when event-flag support was requested, so
\* getSize() reads an existing grantor; a default-constructed descriptor has
\* none, and an explicitly constructed one has what its caller passed.
C9_GeneratedHas3Or4 ==
    /\ \A d \in Generated :
          /\ countGrantors(d) \in {3, 4}
          /\ countGrantors(d) = 4 <=> descs[d].ev
          /\ DATAPTRPOS + 1 <= countGrantors(d)
    /\ \A d \in Live : descs[d].origin = "default" => countGrantors(d) = 0

C9_Witness ==
    \E d \in Generated : descs[d].ev /\ countGrantors(d) = 4


(***************************************************************************)
(* Steps of the copy constructor and of the destructor, and the handle a   *)
(* descriptor points at.                                                   *)
(***************************************************************************)
\* this step copy-constructs slot d from slot s
CopyStep(d, s) ==
    /\ ~descs[d].live /\ descs'[d].live
    /\ descs[s].live
    /\ descs'[d].origin # "roundtrip" /\ descs'[d].copyOf = s

\* this step destroys slot d
DestroyStep(d) == descs[d].live /\ ~descs'[d].live

WithHandle == {d \in Live : descs[d].mHandle # nullptr}
HandleOf(d) == handles[descs[d].mHandle]
FdSlots(h) == 1..h.numFds

(***************************************************************************)
(* C1.  Copy-constructing from a descriptor whose handle holds N fds and M *)
(* ints, every dup succeeding, yields a handle of its own with N fds, each *)
(* a fresh duplicate (not open before, open after), pairwise distinct and  *)
(* different from every fd of the source handle, and M ints equal position *)
(* by position to the source's.                                            *)
(***************************************************************************)
C1_CopyDuplicatesEveryFd ==
    [][\A d \in DescIds, s \in DescIds :
          (/\ CopyStep(d, s)
           /\ descs[s].mHandle # nullptr
           /\ descs'[d].mHandle # nullptr
           /\ \A i \in FdSlots(handles'[descs'[d].mHandle]) :
                 handles'[descs'[d].mHandle].data[i] # -1)
          => LET src == handles[descs[s].mHandle]
                 new == handles'[descs'[d].mHandle]
             IN  /\ descs'[d].mHandle # descs[s].mHandle
                 /\ new.alloc
                 /\ new.numFds = src.numFds
                 /\ new.numInts = src.numInts
                 /\ \A i \in FdSlots(new), j \in FdSlots(new) :
                       i # j => new.data[i] # new.data[j]
                 /\ \A i \in FdSlots(new), j \in FdSlots(src) :
                       new.data[i] # src.data[j]
                 /\ \A i \in FdSlots(new) :
                       new.data[i] \notin open /\ new.data[i] \in open'
                 /\ \A i \in 1..src.numInts :
                       new.data[new.numFds + i] = src.data[src.numFds + i]
    ]_vars

\* a copy with two duplicated fds and one int next to its source
C1_Witness ==
    \E d \in WithHandle :
        /\ descs[d].copyOf # 0
        /\ descs[descs[d].copyOf].mHandle # nullptr
        /\ HandleOf(d).numFds = 2 /\ HandleOf(d).numInts = 1
        /\ -1 \notin HandleFds(HandleOf(d))
        /\ HandleFds(HandleOf(d)) \cap HandleFds(HandleOf(descs[d].copyOf)) = {}

(***************************************************************************)
(* C2.  Through any sequence of copy-constructions and destructions,       *)
(* destroying a descriptor closes exactly the fds of its own handle        *)
(* (nothing when it has none), and every live descriptor's handle stays    *)
(* allocated with each of its fds open.                                    *)
(***************************************************************************)
C2_DestroyClosesOnlyOwnFds ==
    /\ [](\A d \in WithHandle :
             /\ HandleOf(d).alloc
             /\ HandleFds(HandleOf(d)) \ {-1} \subseteq open)
    /\ [][\A d \in DescIds :
             DestroyStep(d)
             => /\ open' \subseteq open
                /\ open \ open' =
                      IF descs[d].mHandle = nullptr THEN {}
                      ELSE HandleFds(HandleOf(d)) \cap open
                /\ \A e \in Live \ {d} :
                      /\ descs'[e].mHandle = descs[e].mHandle
                      /\ descs[e].mHandle # nullptr
                            => handles'[descs[e].mHandle] = HandleOf(e)
       ]_vars

\* the source of a copy has been destroyed: its fds 0 and 1 are closed, and the
\* copy lives on with its own two fds open
C2_Witness ==
    \E d \in WithHandle :
        /\ Live = {d}
        /\ HandleOf(d).numFds = 2
        /\ HandleFds(HandleOf(d)) = open
        /\ open \cap {0, 1} = {}

(***************************************************************************)
(* C3.  As claimed: when the OS declines to duplicate an fd the copy       *)
(* constructor fails fatally, so that no descriptor ever holds a handle    *)
(* with a failed fd slot (-1) next to a duplicated one.                    *)
(***************************************************************************)
C3_NoPartiallyDuplicatedHandle ==
    \A d \in WithHandle :
        ~(/\ -1 \in HandleFds(HandleOf(d))
          /\ HandleFds(HandleOf(d)) # {-1})

(***************************************************************************)
(* C10.  Copy construction value-copies the grantors, the quantum and the  *)
(* flags and leaves the source (its members and its handle) unchanged, and *)
(* getFlags() of every descriptor is the flavor of its type from           *)
(* construction to destruction, through copies and grantor writes.         *)
(***************************************************************************)
C10_CopyKeepsValuesAndFlavor ==
    /\ [](\A d \in Live : getFlags(d) = descs[d].flavor)
    /\ [][\A d \in DescIds, s \in DescIds :
             CopyStep(d, s)
             => /\ descs'[d].mGrantors = descs[s].mGrantors
                /\ to_size_t(descs'[d].mQuantum) = getQuantum(s)
                /\ descs'[d].mFlags = getFlags(s)
                /\ descs'[d].flavor = descs[s].flavor
                /\ descs'[s] = descs[s]
                /\ descs[s].mHandle # nullptr
                      => handles'[descs[s].mHandle] = HandleOf(s)
       ]_vars
    /\ [][\A d \in DescIds :
             (descs[d].live /\ descs'[d].live)
             => descs'[d].mFlags = descs[d].mFlags /\ descs'[d].flavor = descs[d].flavor
       ]_vars

\* a copy, with a handle of its own, of a descriptor whose grantors were written
C10_Witness ==
    \E d \in WithHandle :
        /\ descs[d].copyOf # 0
        /\ descs[d].mGrantors[DATAPTRPOS + 1].fdIndex = 1
        /\ descs[d].mGrantors = descs[descs[d].copyOf].mGrantors
        /\ descs[d].flavor = kUnsynchronizedWrite
        /\ ~IsZero(descs[d].mQuantum)

(***************************************************************************)
(* C7.  As claimed: a descriptor E built explicitly from D's getGrantors(),*)
(* handle() and getQuantum() has D's getSize(), getQuantum() and           *)
(* getFlags() and owns a handle of its own, never D's.                     *)
(***************************************************************************)
C7_RoundTripOwnsItsHandle ==
    \A e \in Live :
        (descs[e].origin = "roundtrip" /\ descs[e].copyOf # 0)
        => LET d == descs[e].copyOf
           IN  /\ countGrantors(e) = countGrantors(d)
               /\ getSize(e) = getSize(d)
               /\ getQuantum(e) = getQuantum(d)
               /\ getFlags(e) = getFlags(d)
               /\ handle(d) # nullptr => handle(e) # handle(d)

(***************************************************************************)
(* C8.  A getGrantors() result is a snapshot: no later step (in particular *)
(* no write through grantors()) changes the elements of a result the       *)
(* caller still holds, and a result taken now holds the grantors as they   *)
(* are now, writes included.                                               *)
(***************************************************************************)
C8_GetGrantorsIsSnapshot ==
    /\ [][\A i \in 1..Len(snaps) :
             i <= Len(snaps')
             => ElemsIn(snaps'[i].vec, descs') = ElemsIn(snaps[i].vec, descs)
       ]_vars
    /\ [][Len(snaps') > Len(snaps)
             => LET new == snaps'[Len(snaps')]
                IN  /\ new.vec.view = 0
                    /\ new.vec.elems = descs[new.of].mGrantors
       ]_vars

\* the caller holds a result that a later write to fdIndex has left behind
C8_Witness ==
    \E i \in 1..Len(snaps) :
        LET d == snaps[i].of
            old == VecElems(snaps[i].vec)
        IN  /\ descs[d].live
            /\ Len(old) = countGrantors(d)
            /\ \E pos \in 1..Len(old) :
                  /\ old[pos].fdIndex = 0
                  /\ descs[d].mGrantors[pos].fdIndex = 1

====
